---- MODULE Spec2Model ----
(***************************************************************************)
(* InsightOs system monitor (src/version1/app.py): the SystemMonitor       *)
(* widget, its one-second QTimer, the three rolling usage windows, the     *)
(* process rankings of the "Top Processes" and "Gaming Mode" tabs and the  *)
(* "Boost Performance" handler.                                            *)
(*                                                                         *)
(* Numbers: cpu_percent and the usage percentages are integers; a GPU's    *)
(* load is kept in hundredths (load_x100 = load * 100), so that            *)
(* gpus[0].load * 100 is load_x100; memory is kept as rss in bytes, and    *)
(* rss / 1024 / 1024 < 50 is rss < 50 * 1024 * 1024 (the division by a     *)
(* power of two is exact and monotone).  None is the value psutil puts in  *)
(* proc.info for an attribute it was denied access to.                     *)
(***************************************************************************)
EXTENDS Integers, Sequences, FiniteSets, TLC

\* ---------------------------------------------------------------- constants
WindowLen == 30
TopDisplay == 10
TopHeavy == 5
CpuThreshold == 5
MemThresholdMB == 50
GamingTabIndex == 2
GpuTabIndex == 3
TabCount == 5
NoneVal == -1
MiB == 1024 * 1024
ExclusionList == {"explorer.exe", "python.exe", "your_game.exe"}

\* ------------------------------------------------------------------- bounds
MaxTicks == 31
MaxHostChanges == 2
MaxBoostTicks == 1
MaxProcs == 2
MaxBoosts == 1
MaxRankProcs == 11
MaxBusy == 2

VARIABLES
    cpu_usage,      \* self.cpu_usage
    ram_usage,      \* self.ram_usage
    gpu_usage,      \* self.gpu_usage
    samples,        \* history: the <<cpu, ram, gpu>> appended by each update_metrics call
    host,           \* environment: what psutil / GPUtil report now
    hostChanges,    \* environment: number of changes of host so far
    procs,          \* environment: the process table, in the order process_iter yields it
    busy,           \* environment: number of processes spawned with a non-idle load
    nextPid,        \* environment: the pid the next process gets
    currentTab,     \* self.tabs.currentIndex()
    process_text,   \* self.process_text
    gaming_text,    \* self.gaming_text
    gpu_text,       \* self.gpu_text
    spec_text,      \* self.spec_text
    timerPending,   \* timeout events of self.timer waiting in the event loop
    inflight,       \* activations of update_all that have started and not returned
    sinceExpiry,    \* history: update_all activations started since the last timer expiry
    lastFetch,      \* history: the last process-table fetch of a handler
    lastBoost,      \* history: the last boost_performance run
    boosts,         \* history: number of boost_performance runs
    terminations,   \* history: <<pid, handler>> of every successful terminate()
    escaped         \* history: the handlers an exception has escaped from

vars == <<cpu_usage, ram_usage, gpu_usage, samples, host, hostChanges, procs, busy, nextPid,
          currentTab, process_text, gaming_text, gpu_text, spec_text, timerPending,
          inflight, sinceExpiry, lastFetch, lastBoost, boosts, terminations, escaped>>

\* ------------------------------------------------------------------ helpers
Range(s) == {s[i] : i \in 1..Len(s)}
Min(a, b) == IF a <= b THEN a ELSE b
Take(s, k) == SubSeq(s, 1, Min(k, Len(s)))

RECURSIVE SelectSeq2(_, _, _, _)
\* the elements of s, from index i on, whose index is not in the set drop
SelectSeq2(s, drop, i, acc) ==
    IF i > Len(s) THEN acc
    ELSE SelectSeq2(s, drop, i + 1, IF i \in drop THEN acc ELSE Append(acc, s[i]))

\* ------------------------------------------------------ environment: host
Gpu0 == [id |-> 0, name |-> "gpu0", load_x100 |-> 50, temperature |-> 60]
Hosts ==
    { [cpu |-> 10, ram |-> 40, gpus |-> <<>>],
      [cpu |-> 75, ram |-> 60, gpus |-> <<Gpu0>>] }

\* ------------------------------------------------------- rolling windows
\* variants of the slice: no slice at all, and s[:30]
KeepAll(s) == s
KeepFirst(s) == Take(s, WindowLen)
\* s[-30:]
LastWindow(s) ==
    IF Len(s) <= WindowLen THEN s ELSE SubSeq(s, Len(s) - WindowLen + 1, Len(s))

\* gpus[0].load * 100 if gpus else 0
GpuSample(h) == IF h.gpus # <<>> THEN h.gpus[1].load_x100 ELSE 0

\* variant of update_metrics that appends no GPU sample when there is no GPU
update_metricsOmitGpu ==
    /\ cpu_usage' = LastWindow(Append(cpu_usage, host.cpu))
    /\ ram_usage' = LastWindow(Append(ram_usage, host.ram))
    /\ gpu_usage' = IF host.gpus # <<>>
                       THEN LastWindow(Append(gpu_usage, GpuSample(host)))
                       ELSE gpu_usage
    /\ samples' = Append(samples, <<host.cpu, host.ram, GpuSample(host)>>)

\* update_metrics: the three appends and slices (the plotting reads them only)
update_metrics ==
    /\ cpu_usage' = LastWindow(Append(cpu_usage, host.cpu))
    /\ ram_usage' = LastWindow(Append(ram_usage, host.ram))
    /\ gpu_usage' = LastWindow(Append(gpu_usage, GpuSample(host)))
    /\ samples' = Append(samples, <<host.cpu, host.ram, GpuSample(host)>>)

\* ---------------------------------------------------- process table reads
\* A record of proc.info: pid, name, cpu (cpu_percent), rss (memory_info.rss).
\* A process psutil was denied access to has cpu = rss = NoneVal.
ProcRecord(pid, name, cpu, rss) == [pid |-> pid, name |-> name, cpu |-> cpu, rss |-> rss]

RECURSIVE FetchLoop(_, _, _)
\* the for loop of show_top_processes / show_gaming_stats: proc.info['memory_info'].rss
\* on None raises AttributeError, which `except (NoSuchProcess, AccessDenied)` lets through
FetchLoop(table, i, acc) ==
    IF i > Len(table) THEN [records |-> acc, error |-> FALSE]
    ELSE IF table[i].rss = NoneVal THEN [records |-> acc, error |-> TRUE]
    ELSE FetchLoop(table, i + 1, Append(acc, table[i]))

FetchRecords(table) == FetchLoop(table, 1, <<>>)

\* ------------------------------------------------------------------ ranking
\* variant of the display key with the two components swapped
DisplayKeyGreaterMemFirst(a, b) == a.rss > b.rss \/ (a.rss = b.rss /\ a.cpu > b.cpu)
\* key=lambda x: (x[3], x[2]): (cpu_percent, mem_mb), compared as tuples
DisplayKeyGreater(a, b) == a.cpu > b.cpu \/ (a.cpu = b.cpu /\ a.rss > b.rss)
\* key=lambda x: (x[2], x[3]): (mem_mb, cpu_percent)
HeavyKeyGreater(a, b) == a.rss > b.rss \/ (a.rss = b.rss /\ a.cpu > b.cpu)

KeyGreater(mode, a, b) ==
    IF mode = "display" THEN DisplayKeyGreater(a, b) ELSE HeavyKeyGreater(a, b)

\* variant of InsertPos that puts x before the elements of an equal key (not stable)
InsertPosBeforeEqual(mode, sorted, x) ==
    LET smaller == {i \in 1..Len(sorted) : ~KeyGreater(mode, sorted[i], x)}
    IN  IF smaller = {} THEN Len(sorted) + 1
        ELSE CHOOSE i \in smaller : \A j \in smaller : i <= j
\* where x goes in a descending list: before the first element of a smaller key,
\* hence after every element of an equal key (list.sort is stable, also with reverse=True)
InsertPos(mode, sorted, x) ==
    LET smaller == {i \in 1..Len(sorted) : KeyGreater(mode, x, sorted[i])}
    IN  IF smaller = {} THEN Len(sorted) + 1
        ELSE CHOOSE i \in smaller : \A j \in smaller : i <= j

InsertSorted(mode, sorted, x) ==
    LET p == InsertPos(mode, sorted, x)
    IN  SubSeq(sorted, 1, p - 1) \o <<x>> \o SubSeq(sorted, p, Len(sorted))

RECURSIVE SortLoop(_, _, _, _)
SortLoop(mode, seq, i, acc) ==
    IF i > Len(seq) THEN acc
    ELSE SortLoop(mode, seq, i + 1, InsertSorted(mode, acc, seq[i]))

\* processes.sort(key=..., reverse=True)
SortDescending(mode, seq) == SortLoop(mode, seq, 1, <<>>)

\* ------------------------------------------------------------ the tab texts
\* get_system_info: the GPU lines of the text (the uname part is static)
get_system_info(h) == [gpus |-> [i \in 1..Len(h.gpus) |-> h.gpus[i].name]]

\* show_top_processes: the rows under the header, or the escaping error
TopProcesses(table) ==
    LET f == FetchRecords(table)
    IN  [error |-> f.error,
         fetch |-> [handler |-> "show_top_processes", table |-> table,
                    records |-> f.records, error |-> f.error],
         rows  |-> IF f.error THEN <<>>
                   ELSE Take(SortDescending("display", f.records), TopDisplay)]

EmptyGaming == [kind |-> "empty", gpu |-> "", fps |-> 0, rows |-> <<>>, appended |-> <<>>]

\* show_gaming_stats: "No GPU detected." and return, or the stats of gpus[0] and
\* the five heaviest processes
GamingStats(h, table) ==
    IF h.gpus = <<>>
    THEN [error |-> FALSE, fetched |-> FALSE, fetch |-> [handler |-> "none"],
          text |-> [EmptyGaming EXCEPT !.kind = "nogpu"]]
    ELSE LET f == FetchRecords(table)
         IN  [error |-> f.error, fetched |-> TRUE,
              fetch |-> [handler |-> "show_gaming_stats", table |-> table,
                         records |-> f.records, error |-> f.error],
              text  |-> [kind |-> "stats", gpu |-> h.gpus[1].name,
                         fps |-> ((100 - h.gpus[1].load_x100) * 144) \div 100,
                         rows |-> IF f.error THEN <<>>
                                  ELSE Take(SortDescending("heavy", f.records), TopHeavy),
                         appended |-> <<>>]]

\* show_gpu_stats: one block per GPU, or "No GPUs detected."
GpuStats(h) == [gpus |-> [i \in 1..Len(h.gpus) |-> h.gpus[i].id]]

\* -------------------------------------------------------- boost_performance
TermOutcomes == {"ok", "gone", "denied"}
NoBoost ==
    [ran |-> FALSE, table |-> <<>>, attempted |-> <<>>, failed |-> <<>>,
     done |-> <<>>, killed |-> <<>>, error |-> FALSE]

\* cpu_percent < 5 and rss / 1024 / 1024 < 50 and name not in [...]
Selected(r) ==
    /\ r.cpu < CpuThreshold
    /\ r.rss < MemThresholdMB * MiB
    /\ r.name \notin ExclusionList

RECURSIVE BoostLoop(_, _, _, _)
\* the for loop of boost_performance over the table; outc[i] is what
\* psutil.Process(pid).terminate() does for the i-th process: "ok", or it raises
\* NoSuchProcess ("gone") or AccessDenied ("denied"), which the except clause swallows.
\* None < 5 raises TypeError and None.rss AttributeError: neither is caught.
BoostLoop(table, outc, i, acc) ==
    IF i > Len(table) THEN acc
    ELSE LET r == table[i] IN
         IF r.cpu = NoneVal THEN [acc EXCEPT !.error = TRUE]
         ELSE IF r.cpu >= CpuThreshold THEN BoostLoop(table, outc, i + 1, acc)
         ELSE IF r.rss = NoneVal THEN [acc EXCEPT !.error = TRUE]
         ELSE IF ~Selected(r) THEN BoostLoop(table, outc, i + 1, acc)
         ELSE IF outc[i] = "ok"
              THEN BoostLoop(table, outc, i + 1,
                       [acc EXCEPT !.attempted = Append(@, i),
                                   !.done = Append(@, i),
                                   !.killed = Append(@, r.name)])
              ELSE BoostLoop(table, outc, i + 1,
                       [acc EXCEPT !.attempted = Append(@, i),
                                   !.failed = Append(@, i)])

BoostRun(table, outc) ==
    BoostLoop(table, outc, 1, [NoBoost EXCEPT !.ran = TRUE, !.table = table])

\* ---------------------------------------------------------------- actions
\* variant of LoopIdle: a loop that delivers events while a handler is running
LoopReentrant == TRUE
\* the Qt event loop runs one handler at a time on the GUI thread: no handler
\* of this widget re-enters the loop (no processEvents, no thread)
LoopIdle == inflight = 0

\* self.timer (interval 1000 ms, repeating) expires; expiries that find the
\* timeout still undelivered are coalesced into it
TimerExpire ==
    /\ timerPending' = 1
    /\ sinceExpiry' = 0
    /\ UNCHANGED <<cpu_usage, ram_usage, gpu_usage, samples, host, hostChanges, procs,
                   busy, nextPid, currentTab, process_text, gaming_text, gpu_text,
                   spec_text, inflight, lastFetch, lastBoost, boosts, terminations,
                   escaped>>

\* update_all, first part: the event loop delivers the timeout and update_all
\* calls update_metrics
UpdateAllBegin(maxTicks) ==
    /\ LoopIdle
    /\ timerPending > 0
    /\ Len(samples) < maxTicks
    /\ timerPending' = timerPending - 1
    /\ inflight' = inflight + 1
    /\ sinceExpiry' = sinceExpiry + 1
    /\ update_metrics
    /\ UNCHANGED <<host, hostChanges, procs, busy, nextPid, currentTab, process_text,
                   gaming_text, gpu_text, spec_text, lastFetch, lastBoost, boosts,
                   terminations, escaped>>

\* update_all, second part: show_top_processes, show_specs, then the text of
\* the selected tab; an exception ends update_all where it is raised
UpdateAllEnd ==
    /\ inflight > 0
    /\ inflight' = inflight - 1
    /\ LET top == TopProcesses(procs)
           gam == GamingStats(host, procs)
       IN  IF top.error
           THEN /\ escaped' = escaped \cup {"show_top_processes"}
                /\ lastFetch' = top.fetch
                /\ UNCHANGED <<process_text, spec_text, gaming_text, gpu_text>>
           ELSE /\ process_text' = top.rows
                /\ spec_text' = get_system_info(host)
                /\ IF currentTab = GamingTabIndex
                   THEN /\ lastFetch' = IF gam.fetched THEN gam.fetch ELSE top.fetch
                        /\ escaped' = IF gam.error
                                         THEN escaped \cup {"show_gaming_stats"}
                                         ELSE escaped
                        /\ gaming_text' = IF gam.error THEN gaming_text ELSE gam.text
                        /\ UNCHANGED gpu_text
                   ELSE /\ lastFetch' = top.fetch
                        /\ gpu_text' = IF currentTab = GpuTabIndex
                                          THEN GpuStats(host) ELSE gpu_text
                        /\ UNCHANGED <<gaming_text, escaped>>
    /\ UNCHANGED <<cpu_usage, ram_usage, gpu_usage, samples, host, hostChanges, procs,
                   busy, nextPid, currentTab, timerPending, sinceExpiry, lastBoost,
                   boosts, terminations>>

\* the user selects another tab of self.tabs
SetTab(t) ==
    /\ LoopIdle
    /\ t # currentTab
    /\ currentTab' = t
    /\ UNCHANGED <<cpu_usage, ram_usage, gpu_usage, samples, host, hostChanges, procs,
                   busy, nextPid, process_text, gaming_text, gpu_text, spec_text,
                   timerPending, inflight, sinceExpiry, lastFetch, lastBoost, boosts,
                   terminations, escaped>>

\* variant of boost_performance that samples the metrics instead
boost_performanceAndSample ==
    /\ LoopIdle
    /\ currentTab = GamingTabIndex
    /\ boosts < MaxBoosts
    /\ boosts' = boosts + 1
    /\ update_metrics
    /\ UNCHANGED <<host, hostChanges, procs, lastBoost, terminations, escaped,
                   gaming_text, busy, nextPid, currentTab, process_text, gpu_text,
                   spec_text, timerPending, inflight, sinceExpiry, lastFetch>>
\* the boost button (on the Gaming Mode tab) is clicked: boost_performance
boost_performance ==
    /\ LoopIdle
    /\ currentTab = GamingTabIndex
    /\ boosts < MaxBoosts
    /\ boosts' = boosts + 1
    /\ \E outc \in [1..Len(procs) -> TermOutcomes] :
         LET run == BoostRun(procs, outc)
             left == {run.attempted[k] : k \in 1..Len(run.attempted)}
                       \ {i \in 1..Len(procs) : outc[i] = "denied"}
         IN  /\ lastBoost' = run
             /\ procs' = SelectSeq2(procs, left, 1, <<>>)
             /\ terminations' = terminations \cup
                    {<<procs[run.done[k]].pid, "boost_performance">> :
                         k \in 1..Len(run.done)}
             /\ escaped' = IF run.error THEN escaped \cup {"boost_performance"}
                            ELSE escaped
             /\ gaming_text' = IF run.error THEN gaming_text
                                ELSE [gaming_text EXCEPT !.appended = Append(@, run.killed)]
    /\ UNCHANGED <<cpu_usage, ram_usage, gpu_usage, samples, host, hostChanges, busy,
                   nextPid, currentTab, process_text, gpu_text, spec_text, timerPending,
                   inflight, sinceExpiry, lastFetch>>

\* environment: the load of the host, or its GPU, changes
HostChange ==
    /\ hostChanges < MaxHostChanges
    /\ hostChanges' = hostChanges + 1
    /\ \E h \in Hosts \ {host} : host' = h
    /\ UNCHANGED <<cpu_usage, ram_usage, gpu_usage, samples, procs, busy, nextPid,
                   currentTab, process_text, gaming_text, gpu_text, spec_text,
                   timerPending, inflight, sinceExpiry, lastFetch, lastBoost, boosts,
                   terminations, escaped>>

\* environment: a process starts
ProcKinds ==
    { [name |-> "svc.exe",      cpu |-> 0, rss |-> 10 * MiB],
      [name |-> "explorer.exe", cpu |-> 0, rss |-> 10 * MiB],
      [name |-> "svc.exe",      cpu |-> 5, rss |-> 10 * MiB],
      [name |-> "svc.exe",      cpu |-> 0, rss |-> 50 * MiB],
      [name |-> "svc.exe",      cpu |-> NoneVal, rss |-> NoneVal] }

Spawn ==
    /\ nextPid <= MaxProcs
    /\ nextPid' = nextPid + 1
    /\ \E k \in ProcKinds : procs' = Append(procs, ProcRecord(nextPid, k.name, k.cpu, k.rss))
    /\ UNCHANGED <<cpu_usage, ram_usage, gpu_usage, samples, host, hostChanges, busy,
                   currentTab, process_text, gaming_text, gpu_text, spec_text,
                   timerPending, inflight, sinceExpiry, lastFetch, lastBoost, boosts,
                   terminations, escaped>>

\* environment: a process starts while the widget is being constructed; most
\* processes are idle, at most MaxBusy are not.  The table lists the newest
\* process last or first: nothing in the source orders it.
RankLoads == {[cpu |-> c, rss |-> m] : c \in {0, 5}, m \in {10 * MiB, 50 * MiB}}
IdleLoad == [cpu |-> 0, rss |-> 10 * MiB]

SpawnAt(front) ==
    /\ lastFetch.handler = "none"
    /\ Len(procs) < MaxRankProcs
    /\ nextPid' = nextPid + 1
    /\ \E k \in RankLoads :
         LET r == ProcRecord(nextPid, "svc.exe", k.cpu, k.rss)
         IN  /\ (k # IdleLoad) => busy < MaxBusy
             /\ busy' = IF k # IdleLoad THEN busy + 1 ELSE busy
             /\ procs' = IF front THEN <<r>> \o procs ELSE Append(procs, r)
    /\ UNCHANGED <<cpu_usage, ram_usage, gpu_usage, samples, host, hostChanges,
                   currentTab, process_text, gaming_text, gpu_text, spec_text,
                   timerPending, inflight, sinceExpiry, lastFetch, lastBoost, boosts,
                   terminations, escaped>>

NewestLast(table) == IF table = <<>> THEN TRUE ELSE table[Len(table)].pid = Len(table)
NewestFirst(table) == IF table = <<>> THEN FALSE ELSE table[1].pid = Len(table)

SpawnBack == NewestLast(procs) /\ SpawnAt(FALSE)
SpawnFront == NewestFirst(procs) /\ SpawnAt(TRUE)

\* self.show_top_processes() of __init__ (line 139)
show_top_processes ==
    /\ lastFetch.handler = "none"
    /\ LET top == TopProcesses(procs)
       IN  /\ lastFetch' = top.fetch
           /\ escaped' = IF top.error THEN escaped \cup {"show_top_processes"} ELSE escaped
           /\ process_text' = IF top.error THEN process_text ELSE top.rows
    /\ UNCHANGED <<cpu_usage, ram_usage, gpu_usage, samples, host, hostChanges, procs,
                   busy, nextPid, currentTab, gaming_text, gpu_text, spec_text,
                   timerPending, inflight, sinceExpiry, lastBoost, boosts, terminations>>

\* self.show_gaming_stats() of __init__ (line 140)
show_gaming_stats ==
    /\ lastFetch.handler = "show_top_processes"
    /\ LET gam == GamingStats(host, procs)
       IN  /\ lastFetch' = IF gam.fetched THEN gam.fetch
                            ELSE [lastFetch EXCEPT !.handler = "show_gaming_stats"]
           /\ escaped' = IF gam.error THEN escaped \cup {"show_gaming_stats"} ELSE escaped
           /\ gaming_text' = IF gam.error THEN gaming_text ELSE gam.text
    /\ UNCHANGED <<cpu_usage, ram_usage, gpu_usage, samples, host, hostChanges, procs,
                   busy, nextPid, currentTab, process_text, gpu_text, spec_text,
                   timerPending, inflight, sinceExpiry, lastBoost, boosts, terminations>>

\* --------------------------------------------------------- specifications
NoFetch == [handler |-> "none"]
InitialProcs ==
    << ProcRecord(1, "python.exe", 5, 80 * MiB), ProcRecord(2, "svc.exe", 0, 10 * MiB) >>

\* the state __init__ leaves at line 135: empty windows, the timer started
Constructed(h, table) ==
    /\ cpu_usage = <<>> /\ ram_usage = <<>> /\ gpu_usage = <<>>
    /\ samples = <<>>
    /\ host = h /\ hostChanges = 0
    /\ procs = table /\ busy = 0 /\ nextPid = 1
    /\ currentTab = 0
    /\ timerPending = 0 /\ inflight = 0 /\ sinceExpiry = 0
    /\ lastFetch = NoFetch /\ lastBoost = NoBoost /\ boosts = 0
    /\ terminations = {} /\ escaped = {}

\* the sampling core: the timer, update_all and the host
\* the state __init__ leaves: the four texts initialised too (lines 138-141)
InitWith(h, table) ==
    /\ Constructed(h, table)
    /\ process_text = TopProcesses(table).rows
    /\ gaming_text = GamingStats(h, table).text
    /\ gpu_text = GpuStats(h)
    /\ spec_text = get_system_info(h)

Init == \E h \in Hosts : InitWith(h, InitialProcs)
Next ==
    \/ TimerExpire
    \/ UpdateAllBegin(MaxTicks)
    \/ UpdateAllEnd
    \/ HostChange
Spec == Init /\ [][Next]_vars

\* the Gaming Mode tab: the process table changes, the user switches tabs and
\* clicks the boost button, the timer keeps ticking
InitBoost == \E h \in Hosts : InitWith(h, <<>>)
NextBoost ==
    \/ TimerExpire
    \/ UpdateAllBegin(MaxBoostTicks)
    \/ UpdateAllEnd
    \/ Spawn
    \/ \E t \in 0..(TabCount - 1) : SetTab(t)
    \/ boost_performance
SpecBoost == InitBoost /\ [][NextBoost]_vars

\* the rankings: the first show_top_processes and show_gaming_stats of __init__
\* over a process table of up to MaxRankProcs processes
InitRank ==
    /\ \E h \in Hosts : Constructed(h, <<>>)
    /\ process_text = <<>>
    /\ gaming_text = EmptyGaming
    /\ gpu_text = GpuStats([gpus |-> <<>>])
    /\ spec_text = get_system_info(host)
NextRank ==
    \/ SpawnBack
    \/ SpawnFront
    \/ show_top_processes
    \/ show_gaming_stats
SpecRank == InitRank /\ [][NextRank]_vars

\* -------------------------------------------------------------- properties
Ticks == Len(samples)
Windows == <<cpu_usage, ram_usage, gpu_usage>>
Rendered == lastFetch.handler \in {"show_top_processes", "show_gaming_stats"}
GamingRendered == lastFetch.handler = "show_gaming_stats" /\ gaming_text.kind = "stats"
PosIn(table, pid) == CHOOSE i \in 1..Len(table) : table[i].pid = pid

\* C1: each of the three windows has length at most 30 in every reachable state,
\* its length never decreases, and once 30 or more update_metrics calls have
\* completed its length is exactly 30.
C1_LengthOk ==
    \A c \in 1..3 :
        /\ Len(Windows[c]) <= WindowLen
        /\ (Ticks >= WindowLen) => Len(Windows[c]) = WindowLen
C1_NeverShrinks ==
    /\ Len(cpu_usage') >= Len(cpu_usage)
    /\ Len(ram_usage') >= Len(ram_usage)
    /\ Len(gpu_usage') >= Len(gpu_usage)
C1_WindowBounded == [](C1_LengthOk) /\ [][C1_NeverShrinks]_vars
C1_Witness == Ticks > WindowLen /\ Len(cpu_usage) = WindowLen /\ Len(gpu_usage) = WindowLen

\* C2: after N update_metrics calls appended s1..sN, a window holds exactly
\* s(N-30+1)..sN in that order when N > 30, and s1..sN when N <= 30.
C2_Fifo ==
    \A c \in 1..3 :
        LET w == Windows[c]
            first == IF Ticks > WindowLen THEN Ticks - WindowLen ELSE 0
        IN  /\ Len(w) = Ticks - first
            /\ \A i \in 1..Len(w) : w[i] = samples[first + i][c]
C2_Witness ==
    /\ Ticks > WindowLen
    /\ samples[1][1] # samples[2][1]
    /\ cpu_usage[1] = samples[2][1]
    /\ cpu_usage[WindowLen] # cpu_usage[1]

\* C8: an update_metrics call made while no GPU is reported appends the CPU
\* sample and the memory sample, appends 0 to gpu_usage, and leaves all three
\* windows with min(n, 30) elements, n the number of calls so far.
C8_Step ==
    (Len(samples') = Ticks + 1 /\ host.gpus = <<>>) =>
        /\ \A w \in {cpu_usage', ram_usage', gpu_usage'} : Len(w) = Min(Ticks + 1, WindowLen)
        /\ cpu_usage'[Len(cpu_usage')] = host.cpu
        /\ ram_usage'[Len(ram_usage')] = host.ram
        /\ gpu_usage'[Len(gpu_usage')] = 0
C8_SameLength ==
    \A c \in 1..3 : Len(Windows[c]) = Min(Ticks, WindowLen)
C8_NoGpuTick == [](C8_SameLength) /\ [][C8_Step]_vars
C8_Witness ==
    /\ inflight = 1
    /\ host.gpus = <<>>
    /\ Ticks > 1
    /\ gpu_usage[Len(gpu_usage)] = 0
    /\ gpu_usage[1] # 0

\* C9: at most one update_all is in flight at any time, and at most one
\* update_all starts between two expiries of the timer, however many periods
\* the previous update_all overran.
C9_OneTickInFlight == inflight <= 1 /\ sinceExpiry <= 1
C9_Witness == inflight = 1 /\ timerPending = 1 /\ sinceExpiry = 0 /\ Ticks > 1

\* C10: a process is terminated only by a boost_performance run, never by an
\* update_all in whatever tab, and a boost_performance run leaves cpu_usage,
\* ram_usage and gpu_usage as they were.
C10_Step ==
    /\ (terminations' # terminations) => boosts' = boosts + 1
    /\ (inflight' # inflight) => (procs' = procs /\ terminations' = terminations)
    /\ (boosts' # boosts) =>
          (cpu_usage' = cpu_usage /\ ram_usage' = ram_usage /\ gpu_usage' = gpu_usage)
C10_Separate == [][C10_Step]_vars
C10_Witness ==
    /\ terminations # {}
    /\ Ticks > 0
    /\ currentTab = GamingTabIndex
    /\ Len(cpu_usage) = Ticks

\* C6: the rows of show_top_processes are the first 10 of the fetched records in
\* descending (cpu, memory) order, those of show_gaming_stats the first 5 in
\* descending (memory, cpu) order; no record left out has a larger key than a
\* record shown.
CpuThenMem(a, b) == a.cpu > b.cpu \/ (a.cpu = b.cpu /\ a.rss > b.rss)
MemThenCpu(a, b) == a.rss > b.rss \/ (a.rss = b.rss /\ a.cpu > b.cpu)
TopOf(rows, k, table, mode) ==
    LET bigger(a, b) == IF mode = "display" THEN CpuThenMem(a, b) ELSE MemThenCpu(a, b)
    IN  /\ Len(rows) = Min(k, Len(table))
        /\ \A i \in 1..Len(rows) : rows[i] \in Range(table)
        /\ \A i, j \in 1..Len(rows) : i < j =>
               (rows[i].pid # rows[j].pid /\ ~bigger(rows[j], rows[i]))
        /\ \A r \in Range(table) : r \notin Range(rows) =>
               \A i \in 1..Len(rows) : ~bigger(r, rows[i])
C6_TopK ==
    /\ Rendered => TopOf(process_text, TopDisplay, procs, "display")
    /\ GamingRendered => TopOf(gaming_text.rows, TopHeavy, procs, "heavy")
C6_Witness ==
    /\ GamingRendered
    /\ Len(procs) > TopDisplay
    /\ process_text[1].cpu > process_text[TopDisplay].cpu
    /\ process_text[1].rss < process_text[2].rss
    /\ gaming_text.rows[1].pid # process_text[1].pid
    /\ gaming_text.rows[1].rss > gaming_text.rows[TopHeavy].rss

\* C7 as the spec puts it: of two shown records with equal (cpu, memory) the one
\* with the smaller pid comes first, whatever the order of the process table.
SameKey(a, b) == a.cpu = b.cpu /\ a.rss = b.rss
KeepsTableOrder(rows, table) ==
    /\ \A i, j \in 1..Len(rows) :
          (i < j /\ SameKey(rows[i], rows[j])) =>
              PosIn(table, rows[i].pid) < PosIn(table, rows[j].pid)
    /\ \A i \in 1..Len(rows) : \A k \in 1..Len(table) :
          (SameKey(rows[i], table[k]) /\ k < PosIn(table, rows[i].pid)) =>
              table[k] \in Range(rows)
Candidate(r) ==
    /\ r.cpu # NoneVal /\ r.cpu < 5
    /\ r.rss # NoneVal /\ r.rss < 50 * 1024 * 1024
    /\ r.name \notin {"explorer.exe", "python.exe", "your_game.exe"}
C3_AttemptedIffCandidate ==
    lastBoost.ran =>
        \A i \in 1..Len(lastBoost.table) :
            (i \in Range(lastBoost.attempted)) <=> Candidate(lastBoost.table[i])

\* C4: in one boost_performance run, a candidate whose terminate() fails is
\* named in the result the run reports, every other candidate is still
\* attempted, and the reported terminated names are those of the candidates
\* whose terminate() succeeded, in table order.
C4_FailuresReported ==
    lastBoost.ran =>
        /\ \A k \in Range(lastBoost.failed) :
               lastBoost.table[k].name \in Range(lastBoost.killed)
        /\ \A i \in 1..Len(lastBoost.table) :
               Candidate(lastBoost.table[i]) => i \in Range(lastBoost.attempted)
        /\ lastBoost.killed =
               [k \in 1..Len(lastBoost.done) |-> lastBoost.table[lastBoost.done[k]].name]

\* C5: a process-table fetch skips a process it cannot read and continues: the
\* fetch returns every readable record, and no exception escapes
\* show_top_processes, show_gaming_stats or boost_performance.
Readable(table) == SelectSeq(table, LAMBDA r : r.rss # NoneVal /\ r.cpu # NoneVal)
C5_FetchSkipsAndContinues ==
    /\ escaped = {}
    /\ Rendered => (~lastFetch.error /\ lastFetch.records = Readable(lastFetch.table))
    /\ lastBoost.ran => ~lastBoost.error

====
